---- MODULE Spec2Model ----
(***************************************************************************)
(* A model of the sqlc-example-api repository: a blog backend whose every  *)
(* handler binds a request, runs ONE parameterized SQL statement and maps  *)
(* the outcome to an HTTP status and a JSON body.                          *)
(*                                                                         *)
(* The repository holds two handler sets over two schemas:                 *)
(*   - APIHandler (tables "user"/"post", ownership-checked update/delete), *)
(*     specification Spec;                                                 *)
(*   - Server (tables users/posts, paginated list, update/delete by id),   *)
(*     specification SpecServer.                                           *)
(*                                                                         *)
(* A table is a set of rows.  A statement is atomic.  The store is taken   *)
(* to be reachable: a statement fails only by its own constraints.         *)
(* A message built by string concatenation is the sequence of its pieces.  *)
(***************************************************************************)
EXTENDS Integers, Sequences, FiniteSets, TLC

\* ------------------------------------------------------------------ bounds

\* The clock takes the values 0..MaxTime (NOW() of the store).
MaxTime == 1
\* Last value the sequence behind "user"."id" hands out.
MaxUserId == 2
\* Last value the sequence behind "post"."id" hands out.
MaxPostId == 2

\* ------------------------------------------------------- program constants

StatusOK == 200
StatusCreated == 201
StatusBadRequest == 400
StatusUnauthorized == 401
StatusNotFound == 404
StatusInternalServerError == 500

\* bcrypt refuses a password longer than 72 bytes.
BcryptMaxLen == 72

\* ------------------------------------------------------------------ inputs

\* A request body is the struct it binds to; an absent field is the zero value
\* of its type, which binding:"required" rejects.

LongPassword == [i \in 1..(BcryptMaxLen + 1) |-> "x"]

\* A password is a sequence of bytes.
RegisterBodies ==
  [user_name : {"alice", "bob"}, password : {<<"p">>, LongPassword}]
    \cup {[user_name |-> "", password |-> <<"p">>],
          [user_name |-> "alice", password |-> <<>>]}

LoginBodies ==
  [user_name : {"alice", "bob"}, password : {<<"p">>, <<"q">>}]
    \cup {[user_name |-> "", password |-> <<"p">>]}

\* The salt bcrypt draws for a new hash.
Salts == {"s1"}

CreatePostBodies ==
  [user_id : 1..MaxUserId, title : {"t1"}, content : {"c1", "c2"}]
    \cup {[user_id |-> 0, title |-> "t1", content |-> "c1"],
          [user_id |-> 1, title |-> "", content |-> "c1"]}

DeletePostBodies == [user_id : 0..MaxUserId]

UpdatePostBodies ==
  [user_id : 1..MaxUserId, content : {"c1", "c2"}]
    \cup {[user_id |-> 0, content |-> "c1"], [user_id |-> 1, content |-> ""]}

DigitChars == <<"0", "1", "2", "3", "4", "5", "6", "7", "8", "9">>

\* The :id path parameter, a string of characters.
PathParams == {<<DigitChars[n + 1]>> : n \in 1..MaxPostId} \cup {<<"x">>}

VARIABLES
  user,          \* table "user": rows [id, user_name, password_hash, created_at]
  post,          \* table "post": rows [id, user_id, title, content, created_at]
  user_id_seq,   \* last value of the sequence behind "user"."id" (SERIAL)
  post_id_seq,   \* last value of the sequence behind "post"."id" (SERIAL)
  users,         \* table users: rows [id, username, email, hashed_password, created_at]
  posts,         \* table posts: rows [id, title, content, user_id, created_at, updated_at]
  users_id_seq,  \* last value of the sequence behind users.id (SERIAL)
  posts_id_seq,  \* last value of the sequence behind posts.id (SERIAL)
  inserted,      \* history: the ids of the rows ever inserted into "post"
  now,           \* the store's clock, NOW()
  req,           \* the last request answered
  resp,          \* its response: [status, body]
  stmts          \* the statements its handler sent to the store, with their errors

vars == <<user, post, user_id_seq, post_id_seq, inserted,
          users, posts, users_id_seq, posts_id_seq, now, req, resp, stmts>>

\* The tables and sequences of the schema "user"/"post", and of users/posts.
handlerStore == <<user, post, user_id_seq, post_id_seq, inserted>>
serverStore == <<users, posts, users_id_seq, posts_id_seq>>

store == <<handlerStore, serverStore>>

\* ----------------------------------------------------------------- helpers

ErrNil == "nil"
ErrNoRows == "no rows in result set"
ErrUniqueViolation == "duplicate key value violates unique constraint (SQLSTATE 23505)"
ErrForeignKeyViolation == "insert or update on table violates foreign key constraint (SQLSTATE 23503)"
ErrPasswordTooLong == "bcrypt: password length exceeds 72 bytes"
ErrSyntax == "strconv.Atoi: parsing: invalid syntax"
ErrNegativeOffset == "OFFSET must not be negative (SQLSTATE 2201X)"
ErrBind == "Key: field validation failed on the 'required' tag"

\* gin.H{key: value}: a JSON object with one field.
H(key, value) == (key :> value)

\* c.JSON(status, body)
JSON(status, body) == [status |-> status, body |-> body]

DigitValue(c) == CHOOSE n \in 0..9 : DigitChars[n + 1] = c

IsDigit(c) == \E n \in 0..9 : DigitChars[n + 1] = c

RECURSIVE AtoiValue(_)
AtoiValue(s) ==
  IF s = <<>> THEN 0
  ELSE 10 * AtoiValue(SubSeq(s, 1, Len(s) - 1)) + DigitValue(s[Len(s)])

\* strconv.Atoi: the number a string of digits denotes, or a syntax error.
Atoi(s) ==
  IF s # <<>> /\ \A i \in 1..Len(s) : IsDigit(s[i])
  THEN [err |-> ErrNil, value |-> AtoiValue(s)]
  ELSE [err |-> ErrSyntax, value |-> 0]

\* bcrypt.GenerateFromPassword: a salted hash, or an error for a long password.
GenerateFromPassword(password, salt) ==
  IF Len(password) > BcryptMaxLen
  THEN [err |-> ErrPasswordTooLong, hash |-> <<>>]
  ELSE [err |-> ErrNil, hash |-> <<"$2a$10$", salt, password>>]

\* bcrypt.CompareHashAndPassword: nil iff the hash was made from the password.
CompareHashAndPassword(hash, password) ==
  Len(hash) = 3 /\ hash[1] = "$2a$10$" /\ hash[3] = password

\* --------------------------------------------- schema "user" / "post"

\* The column without its UNIQUE constraint.
UserNameIsUnique_Dropped(user_name) == TRUE

\* "user_name" VARCHAR (100) UNIQUE NOT NULL
UserNameIsUnique(user_name) == \A r \in user : r.user_name # user_name

\* The column without its foreign key.
PostUserIdReferencesUser_Dropped(user_id) == TRUE

\* "user_id" INT NOT NULL REFERENCES "user"("id")
PostUserIdReferencesUser(user_id) == \E u \in user : u.id = user_id

\* ------------------------------------------------- queries (db/query)

\* The result of a statement: its error, the row or rows it returns, and the
\* table as the statement leaves it.
Result(err, rows, table) == [err |-> err, rows |-> rows, table |-> table]

\* CreateUser :one  INSERT INTO "user" ... RETURNING "id", "user_name", "created_at"
Q_CreateUser(user_name, password_hash) ==
  LET id == user_id_seq + 1
      row == [id |-> id, user_name |-> user_name,
              password_hash |-> password_hash, created_at |-> now]
  IN IF UserNameIsUnique(user_name)
     THEN Result(ErrNil,
                 <<[id |-> id, user_name |-> user_name, created_at |-> now]>>,
                 user \cup {row})
     ELSE Result(ErrUniqueViolation, <<>>, user)

\* GetUserByUsername :one  SELECT * FROM "user" WHERE "user_name" = $1 LIMIT 1
Q_GetUserByUsername(user_name) ==
  LET found == {r \in user : r.user_name = user_name}
  IN IF found = {} THEN Result(ErrNoRows, <<>>, user)
     ELSE Result(ErrNil, <<CHOOSE r \in found : TRUE>>, user)

\* GetUserByID :one  SELECT "id", "user_name", "created_at" FROM "user" WHERE "id" = $1
Q_GetUserByID(id) ==
  LET found == {r \in user : r.id = id}
  IN IF found = {} THEN Result(ErrNoRows, <<>>, user)
     ELSE LET r == CHOOSE r \in found : TRUE
          IN Result(ErrNil,
                    <<[id |-> r.id, user_name |-> r.user_name,
                       created_at |-> r.created_at]>>, user)

\* The sequences that hold every row of a table once, newest first; rows
\* of one created_at come in any order (ORDER BY "created_at" DESC).
RECURSIVE OrderByCreatedAtDesc(_)
OrderByCreatedAtDesc(table) ==
  IF table = {} THEN {<<>>}
  ELSE LET newest == {r \in table : \A q \in table : q.created_at <= r.created_at}
       IN UNION {{<<r>> \o rest : rest \in OrderByCreatedAtDesc(table \ {r})} :
                 r \in newest}

UserSummary(r) == [id |-> r.id, user_name |-> r.user_name, created_at |-> r.created_at]

\* ListUsers :many  SELECT "id", "user_name", "created_at" FROM "user" ORDER BY "created_at" DESC
Q_ListUsers ==
  {Result(ErrNil, [i \in 1..Len(rows) |-> UserSummary(rows[i])], user) :
     rows \in OrderByCreatedAtDesc(user)}

\* An id taken from the rows present instead of the sequence: largest id + 1.
NextPostId_LargestPlusOne ==
  IF post = {} THEN 1
  ELSE (CHOOSE r \in post : \A q \in post : q.id <= r.id).id + 1

\* "id" SERIAL: the default of "post".id is the next value of its sequence.
NextPostId == post_id_seq + 1

\* The insert with its last two values in the wrong order: VALUES ($1, $3, $2).
Q_CreatePost_SwapsColumns(user_id, title, content) ==
  LET row == [id |-> NextPostId, user_id |-> user_id, title |-> content,
              content |-> title, created_at |-> now]
  IN IF \E u \in user : u.id = user_id
     THEN Result(ErrNil, <<row>>, post \cup {row})
     ELSE Result(ErrForeignKeyViolation, <<>>, post)

\* CreatePost :one  INSERT INTO "post" ("user_id", "title", "content") ... RETURNING *
Q_CreatePost(user_id, title, content) ==
  LET row == [id |-> NextPostId, user_id |-> user_id, title |-> title,
              content |-> content, created_at |-> now]
  IN IF PostUserIdReferencesUser(user_id)
     THEN Result(ErrNil, <<row>>, post \cup {row})
     ELSE Result(ErrForeignKeyViolation, <<>>, post)

\* GetPostByID :one  SELECT * FROM "post" WHERE "id" = $1 LIMIT 1
Q_GetPostByID(id) ==
  LET found == {r \in post : r.id = id}
  IN IF found = {} THEN Result(ErrNoRows, <<>>, post)
     ELSE Result(ErrNil, <<CHOOSE r \in found : TRUE>>, post)

\* ListAllPosts :many  SELECT * FROM "post" ORDER BY "created_at" DESC
Q_ListAllPosts == {Result(ErrNil, rows, post) : rows \in OrderByCreatedAtDesc(post)}

\* The filter without its ownership condition.
DeletePostWhere_IdOnly(r, id, user_id) == r.id = id

\* DeletePost's filter: WHERE "id" = $1 AND "user_id" = $2
DeletePostWhere(r, id, user_id) == r.id = id /\ r.user_id = user_id

\* DeletePost :exec  DELETE FROM "post" WHERE ...; :exec reports no row count
Q_DeletePost(id, user_id) ==
  Result(ErrNil, <<>>, {r \in post : ~DeletePostWhere(r, id, user_id)})

\* The filter without its id condition.
UpdatePostContentWhere_UserOnly(r, id, user_id) == r.user_id = user_id

\* UpdatePostContent's filter: WHERE "id" = $1 AND "user_id" = $2
UpdatePostContentWhere(r, id, user_id) == r.id = id /\ r.user_id = user_id

\* UpdatePostContent :one  UPDATE "post" SET "content" = $3 WHERE ... RETURNING *
Q_UpdatePostContent(id, user_id, content) ==
  LET hit == {r \in post : UpdatePostContentWhere(r, id, user_id)}
      set(r) == [r EXCEPT !.content = content]
  IN IF hit = {} THEN Result(ErrNoRows, <<>>, post)
     ELSE Result(ErrNil, <<set(CHOOSE r \in hit : TRUE)>>,
                 (post \ hit) \cup {set(r) : r \in hit})

\* ------------------------------------------------ handlers of APIHandler

Answer(request, response) == req' = request /\ resp' = response

\* A handler that sends the statement again when it returned an error.
Call_RetriesOnError(name, r) ==
  IF r.err # ErrNil
  THEN <<[statement |-> name, err |-> r.err], [statement |-> name, err |-> r.err]>>
  ELSE <<[statement |-> name, err |-> r.err]>>

\* h.querier.X(c, ...): the handler sends statement X once and gets r.
Call(name, r) == <<[statement |-> name, err |-> r.err]>>

\* The handler returns having sent these statements.
Executes(statements) == stmts' = statements

Message(text) == <<text>>

\* What RegisterUser answers to the outcome of its CreateUser statement.
RegisterUserResponse(r) ==
  IF r.err # ErrNil
  THEN JSON(StatusInternalServerError,
            H("error", Message("Registration failed (Username may be taken)")))
  ELSE JSON(StatusCreated,
            [id |-> r.rows[1].id, username |-> r.rows[1].user_name,
             message |-> Message("Worker registered successfully.")])

\* RegisterUser on the tables as they are: whether its statement runs, the
\* table "user" as it leaves it, and its response.
RegisterUserRun(body, salt) ==
  LET hashed == GenerateFromPassword(body.password, salt)
  IN IF body.user_name = "" \/ body.password = <<>>
     THEN [statement |-> FALSE, user |-> user,
           resp |-> JSON(StatusBadRequest, H("error", <<"Invalid input: ", ErrBind>>))]
     ELSE IF hashed.err # ErrNil
     THEN [statement |-> FALSE, user |-> user,
           resp |-> JSON(StatusInternalServerError,
                         H("error", Message("Failed to hash password")))]
     ELSE LET r == Q_CreateUser(body.user_name, hashed.hash)
          IN [statement |-> TRUE, user |-> r.table, resp |-> RegisterUserResponse(r)]

\* The statements RegisterUser sends.
RegisterUserStatements(body, salt) ==
  IF RegisterUserRun(body, salt).statement
  THEN Call("CreateUser",
            Q_CreateUser(body.user_name, GenerateFromPassword(body.password, salt).hash))
  ELSE <<>>

RegisterUser(body, salt) ==
  LET run == RegisterUserRun(body, salt)
  IN /\ run.statement => user_id_seq < MaxUserId
     /\ user' = run.user
     /\ user_id_seq' = IF run.statement THEN user_id_seq + 1 ELSE user_id_seq
     /\ Answer([op |-> "RegisterUser", body |-> body], run.resp)
     /\ Executes(RegisterUserStatements(body, salt))
     /\ UNCHANGED <<post, post_id_seq, inserted, serverStore, now>>

LoginUserResponse(body) ==
  IF body.user_name = "" \/ body.password = <<>>
  THEN JSON(StatusBadRequest, H("error", Message("Invalid input")))
  ELSE LET r == Q_GetUserByUsername(body.user_name)
       IN IF r.err # ErrNil
          THEN IF r.err = ErrNoRows
               THEN JSON(StatusUnauthorized,
                         H("error", <<"Invalid username or password", r.err>>))
               ELSE JSON(StatusInternalServerError, H("error", Message("Login failed")))
          ELSE IF ~CompareHashAndPassword(r.rows[1].password_hash, body.password)
          THEN JSON(StatusUnauthorized,
                    H("error", Message("Invalid username or password")))
          ELSE JSON(StatusOK,
                    [id |-> r.rows[1].id, username |-> r.rows[1].user_name,
                     message |-> Message("Login successful.")])

LoginUser(body) ==
  /\ Answer([op |-> "LoginUser", body |-> body], LoginUserResponse(body))
  /\ Executes(IF body.user_name = "" \/ body.password = <<>> THEN <<>>
              ELSE Call("GetUserByUsername", Q_GetUserByUsername(body.user_name)))
  /\ UNCHANGED <<store, now>>

GetUserByIDResponse(param) ==
  LET userID == Atoi(param)
  IN IF userID.err # ErrNil
     THEN JSON(StatusBadRequest, H("error", Message("Invalid worker ID format")))
     ELSE LET r == Q_GetUserByID(userID.value)
          IN IF r.err # ErrNil
             THEN IF r.err = ErrNoRows
                  THEN JSON(StatusNotFound, H("error", Message("Worker not found")))
                  ELSE JSON(StatusInternalServerError,
                            H("error", Message("Failed to retrieve worker data")))
             ELSE JSON(StatusOK, r.rows[1])

GetUserByID(param) ==
  /\ Answer([op |-> "GetUserByID", id |-> param], GetUserByIDResponse(param))
  /\ Executes(IF Atoi(param).err # ErrNil THEN <<>>
              ELSE Call("GetUserByID", Q_GetUserByID(Atoi(param).value)))
  /\ UNCHANGED <<store, now>>

ListAllUsers ==
  /\ \E r \in Q_ListUsers :
       /\ Answer([op |-> "ListAllUsers"],
                 IF r.err # ErrNil
                 THEN JSON(StatusInternalServerError,
                           H("error", <<"Failed to retrieve users: ", r.err>>))
                 ELSE JSON(StatusOK, r.rows))
       /\ Executes(Call("ListUsers", r))
  /\ UNCHANGED <<store, now>>

\* What CreatePost answers to the outcome of its CreatePost statement.
CreatePostResponse(r) ==
  IF r.err # ErrNil
  THEN JSON(StatusInternalServerError, H("error", <<"Failed to create post: ", r.err>>))
  ELSE JSON(StatusCreated, r.rows[1])

CreatePost(body) ==
  LET request == [op |-> "CreatePost", body |-> body]
  IN IF body.user_id = 0 \/ body.title = "" \/ body.content = ""
     THEN /\ Answer(request,
                    JSON(StatusBadRequest,
                         H("error", <<"Invalid post input (requires user_id, title, content): ",
                                      ErrBind>>)))
          /\ Executes(<<>>)
          /\ UNCHANGED <<store, now>>
     ELSE /\ post_id_seq < MaxPostId
          /\ LET r == Q_CreatePost(body.user_id, body.title, body.content)
             IN /\ post' = r.table
                /\ post_id_seq' = post_id_seq + 1
                /\ inserted' = inserted \cup {r.rows[i].id : i \in 1..Len(r.rows)}
                /\ Answer(request, CreatePostResponse(r))
                /\ Executes(Call("CreatePost", r))
          /\ UNCHANGED <<user, user_id_seq, serverStore, now>>

ListAllPosts ==
  /\ \E r \in Q_ListAllPosts :
       /\ Answer([op |-> "ListAllPosts"],
                 IF r.err # ErrNil
                 THEN JSON(StatusInternalServerError,
                           H("error", <<"Failed to retrieve posts: ", r.err>>))
                 ELSE JSON(StatusOK, r.rows))
       /\ Executes(Call("ListAllPosts", r))
  /\ UNCHANGED <<store, now>>

GetPostByIDResponse(param) ==
  LET postID == Atoi(param)
  IN IF postID.err # ErrNil
     THEN JSON(StatusBadRequest, H("error", Message("Invalid post ID format")))
     ELSE LET r == Q_GetPostByID(postID.value)
          IN IF r.err # ErrNil
             THEN IF r.err = ErrNoRows
                  THEN JSON(StatusNotFound, H("error", Message("Post not found")))
                  ELSE JSON(StatusInternalServerError,
                            H("error", <<"Failed to retrieve post: ", r.err>>))
             ELSE JSON(StatusOK, r.rows[1])

GetPostByID(param) ==
  /\ Answer([op |-> "GetPostByID", id |-> param], GetPostByIDResponse(param))
  /\ Executes(IF Atoi(param).err # ErrNil THEN <<>>
              ELSE Call("GetPostByID", Q_GetPostByID(Atoi(param).value)))
  /\ UNCHANGED <<store, now>>

\* What DeletePost answers to the outcome of its DeletePost statement.
DeletePostResponse(r) ==
  IF r.err # ErrNil
  THEN JSON(StatusInternalServerError,
            H("error", <<"Failed to delete post or post not found/unauthorized: ", r.err>>))
  ELSE JSON(StatusOK, H("message", Message("Post deleted successfully")))

DeletePost(param, body) ==
  LET request == [op |-> "DeletePost", id |-> param, body |-> body]
      postID == Atoi(param)
  IN IF postID.err # ErrNil
     THEN /\ Answer(request, JSON(StatusBadRequest,
                                  H("error", Message("Invalid post ID format"))))
          /\ Executes(<<>>)
          /\ UNCHANGED <<store, now>>
     ELSE IF body.user_id = 0
     THEN /\ Answer(request,
                    JSON(StatusBadRequest,
                         H("error", Message("User ID is required for deletion (must be a number)"))))
          /\ Executes(<<>>)
          /\ UNCHANGED <<store, now>>
     ELSE LET r == Q_DeletePost(postID.value, body.user_id)
          IN /\ post' = r.table
             /\ Answer(request, DeletePostResponse(r))
             /\ Executes(Call("DeletePost", r))
             /\ UNCHANGED <<user, user_id_seq, post_id_seq, inserted, serverStore, now>>

\* What UpdatePost answers to the outcome of its UpdatePostContent statement.
UpdatePostResponse(r) ==
  IF r.err # ErrNil
  THEN JSON(StatusInternalServerError,
            H("error", <<"Failed to update post (Post not found or unauthorized): ", r.err>>))
  ELSE JSON(StatusOK, r.rows[1])

UpdatePost(param, body) ==
  LET request == [op |-> "UpdatePost", id |-> param, body |-> body]
      postID == Atoi(param)
  IN IF postID.err # ErrNil
     THEN /\ Answer(request, JSON(StatusBadRequest,
                                  H("error", Message("Invalid post ID format"))))
          /\ Executes(<<>>)
          /\ UNCHANGED <<store, now>>
     ELSE IF body.user_id = 0 \/ body.content = ""
     THEN /\ Answer(request,
                    JSON(StatusBadRequest,
                         H("error", Message("User ID and new content are required."))))
          /\ Executes(<<>>)
          /\ UNCHANGED <<store, now>>
     ELSE LET r == Q_UpdatePostContent(postID.value, body.user_id, body.content)
          IN /\ post' = r.table
             /\ Answer(request, UpdatePostResponse(r))
             /\ Executes(Call("UpdatePostContent", r))
             /\ UNCHANGED <<user, user_id_seq, post_id_seq, inserted, serverStore, now>>

\* Bodies of the earlier handleUpdatePost, which decodes into
\* repo.UpdatePostContentParams: no field is required, a missing one is zero;
\* a body that is not JSON fails to decode.
HandleUpdatePostBodies ==
  [user_id : 0..MaxUserId, content : {"", "c2"}, malformed : {FALSE}]
    \cup {[user_id |-> 0, content |-> "", malformed |-> TRUE]}

\* The earlier version of UpdatePost: the same statement, the body not validated.
handleUpdatePost(param, body) ==
  LET request == [op |-> "handleUpdatePost", id |-> param, body |-> body]
      postID == Atoi(param)
  IN IF postID.err # ErrNil
     THEN /\ Answer(request, JSON(StatusBadRequest,
                                  H("error", Message("Invalid post ID format"))))
          /\ Executes(<<>>)
          /\ UNCHANGED <<store, now>>
     ELSE IF body.malformed
     THEN /\ Answer(request,
                    JSON(StatusBadRequest,
                         H("error", Message("User ID and new content are required."))))
          /\ Executes(<<>>)
          /\ UNCHANGED <<store, now>>
     ELSE LET r == Q_UpdatePostContent(postID.value, body.user_id, body.content)
          IN /\ post' = r.table
             /\ Answer(request, UpdatePostResponse(r))
             /\ Executes(Call("UpdatePostContent", r))
             /\ UNCHANGED <<user, user_id_seq, post_id_seq, inserted, serverStore, now>>

\* ------------------------------------------------------ Server: inputs

\* Last value the sequence behind users.id hands out.
MaxUsersId == 2
\* Last value the sequence behind posts.id hands out.
MaxPostsId == 3

MaxInt32 == 2147483647
MinInt32 == -MaxInt32 - 1

\* listPostsRequest: page_id min=1; page_size min=5,max=20
MinPageID == 1
MinPageSize == 5
MaxPageSize == 20

\* signupRequest: password min=6
MinPasswordLen == 6

\* tokenDuration := 24 * time.Hour, in hours
TokenDuration == 24

JWTSecret == "secret"

GoodPassword == <<"s", "e", "c", "r", "e", "t">>

\* Text fields of the Server's requests are sequences of characters.
SignupBodies ==
  [username : {<<"a">>}, email : {<<"a", "@", "x">>},
   password : {GoodPassword, LongPassword}]
    \cup {[username |-> <<"a", "!">>, email |-> <<"a", "@", "x">>, password |-> GoodPassword],
          [username |-> <<"a">>, email |-> <<"a", "x">>, password |-> GoodPassword],
          [username |-> <<"a">>, email |-> <<"a", "@", "x">>, password |-> <<"p">>]}

ServerLoginBodies ==
  [email : {<<"a", "@", "x">>, <<"b", "@", "x">>}, password : {GoodPassword, <<"q">>}]
    \cup {[email |-> <<>>, password |-> GoodPassword]}

ServerCreatePostBodies ==
  [title : {<<"t">>}, content : {<<"c">>}, user_id : {1}]
    \cup {[title |-> <<>>, content |-> <<"c">>, user_id |-> 1],
          [title |-> <<"t">>, content |-> <<"c">>, user_id |-> 0]}

ServerUpdatePostBodies ==
  [id : 0..2, title : {<<"t", "2">>}, content : {<<"c", "2">>}]
    \cup {[id |-> 1, title |-> <<>>, content |-> <<"c", "2">>]}

\* The :id uri parameter of getPost and deletePost.
UriParams == {<<"0">>, <<"1">>, <<"2">>, <<"x">>}

\* page_id and page_size of the query string, int32 values.
PageIDs == {0, 1, 2, 134217729, 268435457}
PageSizes == {4, 5, 16, 20, 21}

\* ----------------------------------------------------- Server: helpers

\* a + b in int32, wrapping on overflow.
Add32(a, b) ==
  IF b > 0 /\ a > MaxInt32 - b THEN ((a - MaxInt32) - 1) + ((b - MaxInt32) - 1)
  ELSE IF b < 0 /\ a < MinInt32 - b THEN ((a + MaxInt32) + 1) + ((b + MaxInt32) + 1)
  ELSE a + b

\* a * n in int32 for 0 <= n, wrapping on overflow.
RECURSIVE Mul32(_, _)
Mul32(a, n) == IF n = 0 THEN 0 ELSE Add32(Mul32(a, n - 1), a)

AlphanumChars ==
  {DigitChars[i] : i \in 1..10}
    \cup {"a", "b", "c", "d", "e", "f", "g", "h", "i", "j", "k", "l", "m",
          "n", "o", "p", "q", "r", "s", "t", "u", "v", "w", "x", "y", "z"}

\* binding:"alphanum"
IsAlphanum(s) == \A i \in 1..Len(s) : s[i] \in AlphanumChars

\* binding:"email": a local part, one @, a domain.
IsEmail(s) ==
  \E i \in 2..(Len(s) - 1) : s[i] = "@" /\ \A j \in 1..Len(s) : s[j] = "@" => j = i

\* GenerateToken: the claims, signed HS256 with the secret key.
GenerateToken(userID, username, secretKey, duration) ==
  LET claims == [id |-> userID, username |-> username,
                 exp |-> now + duration, iat |-> now]
  IN [alg |-> "HS256", claims |-> claims, signature |-> <<secretKey, claims>>]

\* ------------------------------------------------ schema users / posts

\* username VARCHAR UNIQUE NOT NULL, email VARCHAR UNIQUE NOT NULL
UsersUnique(username, email) ==
  \A r \in users : r.username # username /\ r.email # email

\* CONSTRAINT fk_user FOREIGN KEY(user_id) REFERENCES users(id)
PostsUserIdReferencesUsers(user_id) == \E u \in users : u.id = user_id

\* ------------------------------------------------- queries (db/repo)

Repo_CreateUser(arg) ==
  LET row == [id |-> users_id_seq + 1, username |-> arg.Username, email |-> arg.Email,
              hashed_password |-> arg.HashedPassword, created_at |-> now]
  IN IF UsersUnique(arg.Username, arg.Email)
     THEN Result(ErrNil, <<row>>, users \cup {row})
     ELSE Result(ErrUniqueViolation, <<>>, users)

Repo_GetUseryByEmail(email) ==
  LET found == {r \in users : r.email = email}
  IN IF found = {} THEN Result(ErrNoRows, <<>>, users)
     ELSE Result(ErrNil, <<CHOOSE r \in found : TRUE>>, users)

\* CreatePost :one  INSERT INTO posts (title, content, user_id) ... RETURNING *
Repo_CreatePost(arg) ==
  LET row == [id |-> posts_id_seq + 1, title |-> arg.Title, content |-> arg.Content,
              user_id |-> arg.UserID, created_at |-> now, updated_at |-> now]
  IN IF PostsUserIdReferencesUsers(arg.UserID)
     THEN Result(ErrNil, <<row>>, posts \cup {row})
     ELSE Result(ErrForeignKeyViolation, <<>>, posts)

\* GetPost :one  SELECT * FROM posts WHERE id = $1 LIMIT 1
Repo_GetPost(id) ==
  LET found == {r \in posts : r.id = id}
  IN IF found = {} THEN Result(ErrNoRows, <<>>, posts)
     ELSE Result(ErrNil, <<CHOOSE r \in found : TRUE>>, posts)

\* LIMIT limit OFFSET offset of a sequence of rows.
LimitOffset(rows, limit, offset) ==
  IF offset >= Len(rows) THEN <<>>
  ELSE SubSeq(rows, offset + 1,
              IF Len(rows) - offset <= limit THEN Len(rows) ELSE offset + limit)

\* ListPosts :many  SELECT * FROM posts ORDER BY created_at DESC LIMIT $1 OFFSET $2
Repo_ListPosts(arg) ==
  IF arg.Offset < 0 THEN {Result(ErrNegativeOffset, <<>>, posts)}
  ELSE {Result(ErrNil, LimitOffset(rows, arg.Limit, arg.Offset), posts) :
          rows \in OrderByCreatedAtDesc(posts)}

\* UpdatePost :one  UPDATE posts SET title = $2, content = $3, updated_at = now()
\*                  WHERE id = $1 RETURNING *
Repo_UpdatePost(arg) ==
  LET hit == {r \in posts : r.id = arg.ID}
      set(r) == [r EXCEPT !.title = arg.Title, !.content = arg.Content,
                          !.updated_at = now]
  IN IF hit = {} THEN Result(ErrNoRows, <<>>, posts)
     ELSE Result(ErrNil, <<set(CHOOSE r \in hit : TRUE)>>,
                 (posts \ hit) \cup {set(r) : r \in hit})

\* DeletePost :exec  DELETE FROM posts WHERE id = $1
Repo_DeletePost(id) == Result(ErrNil, <<>>, {r \in posts : r.id # id})

\* --------------------------------------------------- handlers of Server

signup(body, salt) ==
  LET request == [op |-> "signup", body |-> body]
      hashed == GenerateFromPassword(body.password, salt)
  IN IF \/ body.username = <<>> \/ ~IsAlphanum(body.username)
        \/ body.email = <<>> \/ ~IsEmail(body.email)
        \/ body.password = <<>> \/ Len(body.password) < MinPasswordLen
     THEN /\ Answer(request, JSON(StatusBadRequest, H("error", Message(ErrBind))))
          /\ Executes(<<>>)
          /\ UNCHANGED <<store, now>>
     ELSE IF hashed.err # ErrNil
     THEN /\ Answer(request,
                    JSON(StatusInternalServerError,
                         H("error:", Message("failed to hash password, username or email already taken"))))
          /\ Executes(<<>>)
          /\ UNCHANGED <<store, now>>
     ELSE /\ users_id_seq < MaxUsersId
          /\ LET r == Repo_CreateUser([Username |-> body.username, Email |-> body.email,
                                      HashedPassword |-> hashed.hash])
             IN /\ users' = r.table
                /\ users_id_seq' = users_id_seq + 1
                /\ Answer(request,
                          IF r.err # ErrNil
                          THEN JSON(StatusInternalServerError, H("error", Message(r.err)))
                          ELSE JSON(StatusCreated,
                                    H("message", Message("User crested successfully"))))
                /\ Executes(Call("CreateUser", r))
          /\ UNCHANGED <<handlerStore, posts, posts_id_seq, now>>

loginResponse(body) ==
  IF body.email = <<>> \/ ~IsEmail(body.email) \/ body.password = <<>>
  THEN JSON(StatusBadRequest, H("err", Message(ErrBind)))
  ELSE LET r == Repo_GetUseryByEmail(body.email)
       IN IF r.err # ErrNil
          THEN IF r.err = ErrNoRows
               THEN JSON(StatusUnauthorized, H("error", Message("Invalid credentials")))
               ELSE JSON(StatusInternalServerError, H("error", Message("database error")))
          ELSE IF ~CompareHashAndPassword(r.rows[1].hashed_password, body.password)
          THEN JSON(StatusUnauthorized, H("error", Message("invalid credentials")))
          ELSE JSON(StatusOK,
                    [access_token |-> GenerateToken(r.rows[1].id, r.rows[1].username,
                                                    JWTSecret, TokenDuration),
                     username |-> r.rows[1].username])

login(body) ==
  /\ Answer([op |-> "login", body |-> body], loginResponse(body))
  /\ Executes(IF body.email = <<>> \/ ~IsEmail(body.email) \/ body.password = <<>>
              THEN <<>>
              ELSE Call("GetUseryByEmail", Repo_GetUseryByEmail(body.email)))
  /\ UNCHANGED <<store, now>>

createPost(body) ==
  LET request == [op |-> "createPost", body |-> body]
  IN IF body.title = <<>> \/ body.content = <<>> \/ body.user_id = 0
     THEN /\ Answer(request, JSON(StatusBadRequest, H("error", Message(ErrBind))))
          /\ Executes(<<>>)
          /\ UNCHANGED <<store, now>>
     ELSE /\ posts_id_seq < MaxPostsId
          /\ LET r == Repo_CreatePost([Title |-> body.title, Content |-> body.content,
                                      UserID |-> body.user_id])
             IN /\ posts' = r.table
                /\ posts_id_seq' = posts_id_seq + 1
                /\ Answer(request,
                          IF r.err # ErrNil
                          THEN JSON(StatusInternalServerError,
                                    H("error", Message("could not create post")))
                          ELSE JSON(StatusCreated, r.rows[1]))
                /\ Executes(Call("CreatePost", r))
          /\ UNCHANGED <<handlerStore, users, users_id_seq, now>>

\* What listPosts answers to the outcome of its ListPosts statement.
listPostsResponse(r) ==
  IF r.err # ErrNil
  THEN JSON(StatusInternalServerError, H("error", Message("failed to retrieve posts")))
  ELSE JSON(StatusOK, r.rows)

\* listPosts's Offset: (req.PageID - 1) * req.PageSize, in int32.
listPostsOffset(page_id, page_size) == Mul32(Add32(page_id, -1), page_size)

listPosts(page_id, page_size) ==
  LET request == [op |-> "listPosts", page_id |-> page_id, page_size |-> page_size]
  IN /\ IF \/ page_id = 0 \/ page_id < MinPageID
           \/ page_size = 0 \/ page_size < MinPageSize \/ page_size > MaxPageSize
        THEN /\ Answer(request, JSON(StatusBadRequest, H("error", Message(ErrBind))))
             /\ Executes(<<>>)
        ELSE \E r \in Repo_ListPosts([Limit |-> page_size,
                                      Offset |-> listPostsOffset(page_id, page_size)]) :
               /\ Answer(request, listPostsResponse(r))
               /\ Executes(Call("ListPosts", r))
     /\ UNCHANGED <<store, now>>

\* ShouldBindUri of `uri:"id" binding:"required,min=1"`: the id, or an error.
BindUriID(param) ==
  LET id == Atoi(param)
  IN IF id.err # ErrNil \/ id.value = 0 \/ id.value < 1
     THEN [err |-> ErrBind, value |-> 0]
     ELSE [err |-> ErrNil, value |-> id.value]

getPostResponse(param) ==
  LET id == BindUriID(param)
  IN IF id.err # ErrNil
     THEN JSON(StatusBadRequest, H("error", Message(id.err)))
     ELSE LET r == Repo_GetPost(id.value)
          IN IF r.err # ErrNil
             THEN IF r.err = ErrNoRows
                  THEN JSON(StatusNotFound, H("error", Message("post not found")))
                  ELSE JSON(StatusInternalServerError, H("error", Message("database error")))
             ELSE JSON(StatusOK, r.rows[1])

getPost(param) ==
  /\ Answer([op |-> "getPost", id |-> param], getPostResponse(param))
  /\ Executes(IF BindUriID(param).err # ErrNil THEN <<>>
              ELSE Call("GetPost", Repo_GetPost(BindUriID(param).value)))
  /\ UNCHANGED <<store, now>>

updatePost(body) ==
  LET request == [op |-> "updatePost", body |-> body]
  IN IF \/ body.id = 0 \/ body.id < 1 \/ body.title = <<>> \/ body.content = <<>>
     THEN /\ Answer(request, JSON(StatusBadRequest, H("error", Message(ErrBind))))
          /\ Executes(<<>>)
          /\ UNCHANGED <<store, now>>
     ELSE LET r == Repo_UpdatePost([ID |-> body.id, Title |-> body.title,
                                    Content |-> body.content])
          IN /\ posts' = r.table
             /\ Answer(request,
                       IF r.err # ErrNil
                       THEN JSON(StatusInternalServerError,
                                 H("error", Message("failed to update post")))
                       ELSE JSON(StatusOK, r.rows[1]))
             /\ Executes(Call("UpdatePost", r))
             /\ UNCHANGED <<handlerStore, users, users_id_seq, posts_id_seq, now>>

deletePost(param) ==
  LET request == [op |-> "deletePost", id |-> param]
      id == BindUriID(param)
  IN IF id.err # ErrNil
     THEN /\ Answer(request, JSON(StatusBadRequest, H("error", Message(id.err))))
          /\ Executes(<<>>)
          /\ UNCHANGED <<store, now>>
     ELSE LET r == Repo_DeletePost(id.value)
          IN /\ posts' = r.table
             /\ Answer(request,
                       IF r.err # ErrNil
                       THEN JSON(StatusInternalServerError,
                                 H("error", Message("failed to delete post")))
                       ELSE JSON(StatusOK, H("message", Message("Post deleted successfully"))))
             /\ Executes(Call("DeletePost", r))
             /\ UNCHANGED <<handlerStore, users, users_id_seq, posts_id_seq, now>>

\* Time passes at the store.
Tick ==
  /\ now < MaxTime
  /\ now' = now + 1
  /\ UNCHANGED <<store, req, resp, stmts>>

\* ---------------------------------------------------------- specification

NoRequest == [op |-> "none"]
NoResponse == [status |-> 0, body |-> <<>>]

Init ==
  /\ user = {}
  /\ post = {}
  /\ user_id_seq = 0
  /\ post_id_seq = 0
  /\ inserted = {}
  /\ users = {}
  /\ posts = {}
  /\ users_id_seq = 0
  /\ posts_id_seq = 0
  /\ now = 0
  /\ req = NoRequest
  /\ resp = NoResponse
  /\ stmts = <<>>

Next ==
  \/ \E body \in RegisterBodies, salt \in Salts : RegisterUser(body, salt)
  \/ \E body \in LoginBodies : LoginUser(body)
  \/ \E param \in PathParams : GetUserByID(param)
  \/ ListAllUsers
  \/ \E body \in CreatePostBodies : CreatePost(body)
  \/ ListAllPosts
  \/ \E param \in PathParams : GetPostByID(param)
  \/ \E param \in PathParams, body \in DeletePostBodies : DeletePost(param, body)
  \/ \E param \in PathParams, body \in UpdatePostBodies : UpdatePost(param, body)
  \/ Tick

Spec == Init /\ [][Next]_vars

NextServer ==
  \/ \E body \in SignupBodies, salt \in Salts : signup(body, salt)
  \/ \E body \in ServerLoginBodies : login(body)
  \/ \E body \in ServerCreatePostBodies : createPost(body)
  \/ \E param \in UriParams : getPost(param)
  \/ \E page_id \in PageIDs, page_size \in PageSizes : listPosts(page_id, page_size)
  \/ \E body \in ServerUpdatePostBodies : updatePost(body)
  \/ \E param \in UriParams : deletePost(param)
  \/ Tick

SpecServer == Init /\ [][NextServer]_vars

\* APIHandler with its update served by the earlier handleUpdatePost as well.
NextEarlier ==
  \/ Next
  \/ \E param \in PathParams, body \in HandleUpdatePostBodies : handleUpdatePost(param, body)

SpecEarlier == Init /\ [][NextEarlier]_vars

\* The operations APIHandler routes, and those Server routes.
APIHandlerOps ==
  {"RegisterUser", "LoginUser", "GetUserByID", "ListAllUsers", "CreatePost",
   "ListAllPosts", "GetPostByID", "DeletePost", "UpdatePost"}
ServerOps ==
  {"signup", "login", "createPost", "getPost", "listPosts", "updatePost", "deletePost"}

\* A build serves either APIHandler's routes or Server's: both files are
\* package api and both declare NewAPIHandler, so one build holds one of them.
NextEither ==
  \/ req.op \notin ServerOps /\ Next
  \/ req.op \notin APIHandlerOps /\ NextServer

SpecEither == Init /\ [][NextEither]_vars

\* ------------------------------------------------------------ properties

\* A step of a handler: the clock stands still.
HandlerStep == now' = now

\* The post id a request's :id path parameter names.
PostIDOf(request) == Atoi(request.id).value

UnknownIdentity(body) ==
  /\ body.user_name # "" /\ body.password # <<>>
  /\ ~\E u \in user : u.user_name = body.user_name

WrongPassword(body) ==
  /\ body.user_name # "" /\ body.password # <<>>
  /\ \E u \in user : /\ u.user_name = body.user_name
                      /\ ~CompareHashAndPassword(u.password_hash, body.password)

\* C1: a login naming an unknown identity and a login naming an existing
\* identity with a wrong password both get 401 with one and the same body.
C1_LoginFailuresIndistinguishable ==
  \A b1, b2 \in LoginBodies :
    UnknownIdentity(b1) /\ WrongPassword(b2)
      => /\ LoginUserResponse(b1).status = StatusUnauthorized
         /\ LoginUserResponse(b2).status = StatusUnauthorized
         /\ LoginUserResponse(b1).body = LoginUserResponse(b2).body

\* The request just answered is an update or a delete that names an existing
\* post and a user_id that is not the post's owner.
ByNonOwner(request, table) ==
  /\ request.op \in {"UpdatePost", "DeletePost"}
  /\ Atoi(request.id).err = ErrNil
  /\ \E r \in table : r.id = PostIDOf(request) /\ r.user_id # request.body.user_id

\* The request just answered is an update or a delete that names row r and
\* carries the user_id of its owner.
ByOwnerOf(request, r) ==
  /\ request.op \in {"UpdatePost", "DeletePost"}
  /\ Atoi(request.id).err = ErrNil
  /\ r.id = PostIDOf(request) /\ r.user_id = request.body.user_id

\* C2: an update or delete whose user_id is not the post's owner leaves the
\* table "post" as it was; a row changes or disappears only by a request that
\* names it and carries its owner's user_id.
C2_NonOwnerAffectsNoRow ==
  [][/\ (HandlerStep /\ ByNonOwner(req', post)) => post' = post
     /\ \A r \in post : r \notin post' => HandlerStep /\ ByOwnerOf(req', r)]_vars

\* A non-owner's delete or update has been answered and the post is still there.
C2_Witness ==
  /\ ByNonOwner(req, post)
  /\ req.body.user_id # 0
  /\ \E u \in user : u.id = req.body.user_id

\* C3: a delete that matches no row is answered with a failure, never with
\* the success confirmation.
C3_DeleteOfNoRowIsNotFound ==
  [][(/\ HandlerStep
      /\ req'.op = "DeletePost"
      /\ Atoi(req'.id).err = ErrNil
      /\ req'.body.user_id # 0
      /\ ~\E r \in post : r.id = PostIDOf(req') /\ r.user_id = req'.body.user_id)
     => /\ resp'.status = StatusNotFound
        /\ resp'.body # H("message", Message("Post deleted successfully"))]_vars

UserNamesUnique == \A a, b \in user : a.user_name = b.user_name => a = b

\* C4: usernames are unique; a register request for a username gets 201 only if
\* the username was free, and then adds exactly its row; a request for a taken
\* username fails and leaves the table "user" as it was; no row ever leaves.
C4_UsernamesUnique ==
  /\ []UserNamesUnique
  /\ [][/\ user \subseteq user'
        /\ (HandlerStep /\ req'.op = "RegisterUser")
             => IF \E u \in user : u.user_name = req'.body.user_name
                THEN user' = user /\ resp'.status >= StatusBadRequest
                ELSE resp'.status = StatusCreated
                       <=> /\ Cardinality(user') = Cardinality(user) + 1
                           /\ \E u \in user' \ user : u.user_name = req'.body.user_name]_vars

\* A register request for a taken username has been refused.
C4_Witness ==
  /\ req.op = "RegisterUser"
  /\ resp = JSON(StatusInternalServerError,
                 H("error", Message("Registration failed (Username may be taken)")))
  /\ \E u \in user : u.user_name = req.body.user_name

UsernameTaken(body, salt) ==
  /\ body.user_name # "" /\ body.password # <<>>
  /\ GenerateFromPassword(body.password, salt).err = ErrNil
  /\ \E u \in user : u.user_name = body.user_name

HashingFails(body, salt) ==
  /\ body.user_name # "" /\ body.password # <<>>
  /\ GenerateFromPassword(body.password, salt).err # ErrNil

\* C5: the response to a registration refused for a taken username equals the
\* response to a registration refused because hashing failed.
C5_RegistrationFailureHidesCause ==
  \A b1, b2 \in RegisterBodies, salt \in Salts :
    UsernameTaken(b1, salt) /\ HashingFails(b2, salt)
      => RegisterUserRun(b1, salt).resp = RegisterUserRun(b2, salt).resp

PostOwnersExist == \A r \in post : \E u \in user : u.id = r.user_id

\* C6: every post's user_id is the id of a user; a create-post request whose
\* user_id matches no user fails and leaves the table "post" as it was.
C6_PostOwnerExists ==
  /\ []PostOwnersExist
  /\ [][(/\ HandlerStep
          /\ req'.op = "CreatePost"
          /\ ~\E u \in user : u.id = req'.body.user_id)
         => post' = post /\ resp'.status >= StatusBadRequest]_vars

\* A create-post request naming a user that does not exist has been refused
\* by the store.
C6_Witness ==
  /\ req.op = "CreatePost"
  /\ resp = JSON(StatusInternalServerError,
                 H("error", <<"Failed to create post: ", ErrForeignKeyViolation>>))
  /\ ~\E u \in user : u.id = req.body.user_id

\* The page a position lies on, for pages of page_size positions.
PageOf(position, page_size) == ((position - 1) \div page_size) + 1

\* The records at positions (page_id-1)*page_size+1 .. page_id*page_size of rows.
ExpectedPage(rows, page_id, page_size) ==
  LET on == {i \in 1..Len(rows) : PageOf(i, page_size) = page_id}
  IN IF on = {} THEN <<>>
     ELSE SubSeq(rows, CHOOSE i \in on : \A j \in on : i <= j,
                       CHOOSE i \in on : \A j \in on : j <= i)

\* The request just answered is a list request that binding accepts.
AcceptedListPosts(request) ==
  /\ request.op = "listPosts"
  /\ request.page_id >= MinPageID
  /\ request.page_size >= MinPageSize /\ request.page_size <= MaxPageSize

\* C7: the paginated list answers 200 with the records at positions
\* (p-1)*s+1 .. p*s of the posts, newest first; the unpaginated list answers 200
\* with all posts, newest first.
C7_ListReturnsThePage ==
  /\ AcceptedListPosts(req)
       => /\ resp.status = StatusOK
          /\ \E rows \in OrderByCreatedAtDesc(posts) :
               resp.body = ExpectedPage(rows, req.page_id, req.page_size)
  /\ req.op = "ListAllPosts"
       => resp.status = StatusOK /\ resp.body \in OrderByCreatedAtDesc(post)

\* The page of the request lies beyond the last record.
BeyondLastRecord(request) ==
  posts = {} \/ PageOf(Cardinality(posts), request.page_size) < request.page_id

\* C8: an accepted list request whose page lies beyond the last record is
\* answered 200 with no records, and the offset of an accepted request is
\* (page_id-1)*page_size: not negative, not wrapped.
C8_PageBeyondEndIsEmpty ==
  AcceptedListPosts(req)
    => /\ listPostsOffset(req.page_id, req.page_size) >= 0
       /\ listPostsOffset(req.page_id, req.page_size) \div req.page_size = req.page_id - 1
       /\ BeyondLastRecord(req) => resp.status = StatusOK /\ resp.body = <<>>

\* The path parameter that names a post id.
Itoa(id) == <<DigitChars[id + 1]>>

\* C9: a get answers from the table; a get after a successful create returns
\* the post with the owner, title and content submitted; requests that are not
\* an update or delete of a post leave what a get of it returns as it was; after
\* the owner's delete, and from then on, a get of the id answers 404.
C9_RoundTrip ==
  /\ [](req.op = "GetPostByID" => resp = GetPostByIDResponse(req.id))
  /\ [][/\ (HandlerStep /\ req'.op = "CreatePost" /\ resp'.status = StatusCreated)
             => \E param \in PathParams :
                  /\ param = Itoa(resp'.body.id)
                  /\ LET got == GetPostByIDResponse(param)'
                     IN /\ got.status = StatusOK
                        /\ got.body.id = resp'.body.id
                        /\ got.body.user_id = req'.body.user_id
                        /\ got.body.title = req'.body.title
                        /\ got.body.content = req'.body.content
        /\ \A param \in PathParams :
             (/\ GetPostByIDResponse(param).status = StatusOK
              /\ ~(req'.op \in {"UpdatePost", "DeletePost"} /\ req'.id = param))
             => GetPostByIDResponse(param)' = GetPostByIDResponse(param)
        /\ (/\ HandlerStep
             /\ req'.op = "DeletePost"
             /\ \E r \in post : ByOwnerOf(req', r))
             => /\ resp'.status = StatusOK
                /\ \A param \in PathParams :
                     param = req'.id => GetPostByIDResponse(param)'.status = StatusNotFound
        /\ \A param \in PathParams :
             (/\ Atoi(param).err = ErrNil
              /\ Atoi(param).value \in inserted
              /\ GetPostByIDResponse(param).status = StatusNotFound)
             => GetPostByIDResponse(param)'.status = StatusNotFound]_vars

\* A get of a post that was created and then deleted has been answered 404.
C9_Witness ==
  /\ req.op = "GetPostByID"
  /\ Atoi(req.id).err = ErrNil
  /\ PostIDOf(req) \in inserted
  /\ resp.status = StatusNotFound

\* C11: a create-post request naming an existing user gets 201 with a post
\* whose owner is the submitted user_id and whose id is fresh: the id of no post
\* in the table and of no post that was ever in it.
C11_CreatedPostIdIsFresh ==
  [][(/\ HandlerStep
      /\ req'.op = "CreatePost"
      /\ req'.body.title # "" /\ req'.body.content # ""
      /\ \E u \in user : u.id = req'.body.user_id)
     => /\ resp'.status = StatusCreated
        /\ resp'.body.user_id = req'.body.user_id
        /\ resp'.body.id \notin inserted
        /\ \A r \in post : r.id # resp'.body.id
        /\ post' = post \cup {resp'.body}]_vars

\* A post has been created after another post was deleted.
C11_Witness ==
  /\ req.op = "CreatePost"
  /\ resp.status = StatusCreated
  /\ \E id \in inserted : ~\E r \in post : r.id = id

\* The request fails binding or validation, by the tags of its request struct
\* and the parsing of its path parameter.
BindingFails(request) ==
  CASE request.op \in {"RegisterUser", "LoginUser"} ->
         request.body.user_name = "" \/ request.body.password = <<>>
    [] request.op \in {"GetUserByID", "GetPostByID"} -> Atoi(request.id).err # ErrNil
    [] request.op = "CreatePost" ->
         request.body.user_id = 0 \/ request.body.title = "" \/ request.body.content = ""
    [] request.op = "DeletePost" ->
         Atoi(request.id).err # ErrNil \/ request.body.user_id = 0
    [] request.op = "UpdatePost" ->
         \/ Atoi(request.id).err # ErrNil
         \/ request.body.user_id = 0 \/ request.body.content = ""
    [] request.op = "signup" ->
         \/ request.body.username = <<>> \/ ~IsAlphanum(request.body.username)
         \/ request.body.email = <<>> \/ ~IsEmail(request.body.email)
         \/ Len(request.body.password) < MinPasswordLen
    [] request.op = "login" ->
         \/ request.body.email = <<>> \/ ~IsEmail(request.body.email)
         \/ request.body.password = <<>>
    [] request.op = "createPost" ->
         \/ request.body.title = <<>> \/ request.body.content = <<>>
         \/ request.body.user_id = 0
    [] request.op = "listPosts" ->
         \/ request.page_id < MinPageID
         \/ request.page_size < MinPageSize \/ request.page_size > MaxPageSize
    [] request.op \in {"getPost", "deletePost"} ->
         Atoi(request.id).err # ErrNil \/ Atoi(request.id).value < 1
    [] request.op = "updatePost" ->
         \/ request.body.id < 1
         \/ request.body.title = <<>> \/ request.body.content = <<>>
    [] OTHER -> FALSE

\* C12: a request sends at most one statement to the store; one that fails
\* binding or validation is answered 400, sends none and leaves the store as it
\* was; one whose statement returns an error is answered with a failure status,
\* and that statement is the last one it sends.
C12_OneStatementNoRetry ==
  [][HandlerStep
     => /\ Len(stmts') <= 1
        /\ BindingFails(req')
             => resp'.status = StatusBadRequest /\ stmts' = <<>> /\ store' = store
        /\ stmts' = <<>> => store' = store
        /\ \A i \in 1..Len(stmts') :
             stmts'[i].err # ErrNil
             => resp'.status >= StatusBadRequest /\ i = Len(stmts')]_vars

\* A request whose statement returned an error has been answered with a failure.
C12_Witness ==
  /\ Len(stmts) = 1
  /\ stmts[1].err # ErrNil
  /\ resp.status >= StatusBadRequest

\* C13: a successful update changes the content of the post its path names,
\* owned by the user_id it carries, and nothing else: the post returned is that
\* post with the new content; its id, owner, title and creation time, every
\* other post, every user and the sequences are as they were.
C13_UpdateChangesOnlyContent ==
  [][(/\ HandlerStep
      /\ req'.op \in {"UpdatePost", "handleUpdatePost"}
      /\ resp'.status = StatusOK)
     => /\ \E old \in post :
             /\ old.id = PostIDOf(req') /\ old.user_id = req'.body.user_id
             /\ resp'.body = [id |-> old.id, user_id |-> old.user_id, title |-> old.title,
                              content |-> req'.body.content, created_at |-> old.created_at]
             /\ post' = (post \ {old}) \cup {resp'.body}
        /\ user' = user
        /\ <<user_id_seq, post_id_seq, inserted>>' = <<user_id_seq, post_id_seq, inserted>>]_vars

\* The owner has updated one of two posts to a content it did not have.
C13_Witness ==
  /\ req.op \in {"UpdatePost", "handleUpdatePost"}
  /\ resp.status = StatusOK
  /\ Cardinality(post) >= 2
  /\ \E r \in post : r.id # resp.body.id /\ r.content # resp.body.content

\* C10: every failure response is a JSON object with a field named error.
C10_FailureCarriesErrorField ==
  resp.status >= StatusBadRequest => "error" \in DOMAIN resp.body

====
